---- MODULE Spec2Model ----
(***************************************************************************)
(* Huffman coder of src/Final_CEP.py (class HuffmanCoding, FileManager and *)
(* the two Streamlit tabs) and src/DSA_CEP.py (module functions and tabs). *)
(*                                                                         *)
(* Python values are modelled as follows.                                  *)
(*   str of symbols        sequence of one-character strings               *)
(*   str of '0'/'1'        sequence of the integers 0 and 1                *)
(*   dict                  sequence of [k, v] records in insertion order   *)
(*   Node objects          records of an arena `nodes`, referred to by     *)
(*                         their index; None is index 0                    *)
(*   an unbound name       the value Unbound                               *)
(***************************************************************************)
EXTENDS Integers, Sequences, FiniteSets, TLC

VARIABLES
    flow,            \* which program flow runs
    pc,              \* position in the flow
    text,            \* the input text
    freq_table,      \* dict char -> count
    nodes,           \* arena of Node objects
    heap,            \* the heapq list (node indexes)
    root,            \* result of build_huffman_tree
    codes,           \* dict char -> code
    encoded_data,    \* result of encode_text
    padded,          \* result of pad_encoded / pad_encoded_data
    file_bytes,      \* content of the .bin file (compress_file)
    compressed_data, \* bit string handed to the decoder
    unpadded,        \* result of remove_padding
    reverse_codes,   \* dict code -> char of the decoder
    current,         \* working prefix of the decode loop
    decoded,         \* symbols emitted by the decode loop
    pos,             \* number of bits consumed by the decode loop
    raised,          \* exception raised by the flow ("none" if none)
    messages         \* user-visible signals, in order

vars == <<flow, pc, text, freq_table, nodes, heap, root, codes, encoded_data,
          padded, file_bytes, compressed_data, unpadded, reverse_codes,
          current, decoded, pos, raised, messages>>

----------------------------------------------------------------------------
(* Bounds of the model *)

Symbols == {"a", "b", "c", "d"}
MaxLen == 5          \* longest input text of Spec
MaxFreq == 3         \* largest count of a frequency table of SpecTable
MaxCodeLen == 3      \* longest code of a competing code map (C5)
MaxBits == 8         \* longest bit string of SpecPad
MaxHeader == 9       \* largest padding count an uploaded header declares
MaxBody == 4         \* most bits an uploaded payload holds after its header

(* Program constants *)
HeaderBits == 8      \* width of the padding header and of a byte
None == 0
NoneChar == "None"
Unbound == <<-1>>

Bit == {0, 1}
Min(a, b) == IF a < b THEN a ELSE b
Max(a, b) == IF a > b THEN a ELSE b

RECURSIVE SeqsUpTo(_, _)
SeqsUpTo(S, n) ==
    IF n = 0 THEN {<<>>}
    ELSE LET shorter == SeqsUpTo(S, n - 1)
         IN  shorter \cup {Append(s, x) : s \in {t \in shorter : Len(t) = n - 1}, x \in S}

----------------------------------------------------------------------------
(* Python slices and dicts *)

\* s[:n] for n >= 0
Take(s, n) == SubSeq(s, 1, Min(n, Len(s)))
\* s[n:] for n >= 0
Drop(s, n) == SubSeq(s, Min(n, Len(s)) + 1, Len(s))
\* s[:-n] for n > 0
DropLast(s, n) == SubSeq(s, 1, Max(Len(s) - n, 0))

dict_keys(d) == {d[i].k : i \in 1..Len(d)}
dict_has(d, key) == \E i \in 1..Len(d) : d[i].k = key
dict_get(d, key) == d[CHOOSE i \in 1..Len(d) : d[i].k = key].v
\* d[key] = val: a new key is appended, an old key keeps its place
dict_set(d, key, val) ==
    IF dict_has(d, key)
    THEN [i \in 1..Len(d) |-> IF d[i].k = key THEN [k |-> key, v |-> val] ELSE d[i]]
    ELSE Append(d, [k |-> key, v |-> val])

----------------------------------------------------------------------------
(* build_frequency_table / Counter *)

RECURSIVE build_frequency_table_loop(_, _, _)
build_frequency_table_loop(txt, i, freq) ==
    IF i > Len(txt) THEN freq
    ELSE LET char == txt[i]
             f0   == IF dict_has(freq, char) THEN freq ELSE dict_set(freq, char, 0)
         IN  build_frequency_table_loop(txt, i + 1,
                 dict_set(f0, char, dict_get(f0, char) + 1))

build_frequency_table(txt) == build_frequency_table_loop(txt, 1, <<>>)

----------------------------------------------------------------------------
(* Node and heapq. Heap positions are 0-based as in heapq: position p of   *)
(* the list h is h[p + 1].                                                 *)

Node(char, freq) == [char |-> char, freq |-> freq, left |-> None, right |-> None]

\* a comparison turned round: the heap yields the largest frequency first
lt_reversed(ns, a, b) == ns[a].freq > ns[b].freq

\* Node.__lt__
lt(ns, a, b) == ns[a].freq < ns[b].freq

RECURSIVE siftdown_loop(_, _, _, _, _)
siftdown_loop(ns, h, startpos, p, newitem) ==
    IF p > startpos
    THEN LET parentpos == (p - 1) \div 2
             parent    == h[parentpos + 1]
         IN  IF lt(ns, newitem, parent)
             THEN siftdown_loop(ns, [h EXCEPT ![p + 1] = parent], startpos, parentpos, newitem)
             ELSE [h EXCEPT ![p + 1] = newitem]
    ELSE [h EXCEPT ![p + 1] = newitem]

siftdown(ns, h, startpos, p) == siftdown_loop(ns, h, startpos, p, h[p + 1])

RECURSIVE siftup_loop(_, _, _, _, _)
siftup_loop(ns, h, startpos, p, newitem) ==
    LET endpos   == Len(h)
        childpos == 2 * p + 1
    IN  IF childpos < endpos
        THEN LET rightpos == childpos + 1
                 c == IF rightpos < endpos /\ ~lt(ns, h[childpos + 1], h[rightpos + 1])
                      THEN rightpos ELSE childpos
             IN  siftup_loop(ns, [h EXCEPT ![p + 1] = h[c + 1]], startpos, c, newitem)
        ELSE siftdown(ns, [h EXCEPT ![p + 1] = newitem], startpos, p)

siftup(ns, h, p) == siftup_loop(ns, h, p, p, h[p + 1])

RECURSIVE heapify_loop(_, _, _)
heapify_loop(ns, h, i) ==
    IF i < 0 THEN h ELSE heapify_loop(ns, siftup(ns, h, i), i - 1)

heapify(ns, h) == heapify_loop(ns, h, (Len(h) \div 2) - 1)

\* list.pop() in place of heappop: the last element, not the smallest
heappop_last(ns, h) == [item |-> h[Len(h)], heap |-> SubSeq(h, 1, Len(h) - 1)]

\* heappop on a non-empty heap: [item, heap]
heappop(ns, h) ==
    LET lastelt == h[Len(h)]
        rest    == SubSeq(h, 1, Len(h) - 1)
    IN  IF rest # <<>>
        THEN [item |-> rest[1], heap |-> siftup(ns, [rest EXCEPT ![1] = lastelt], 0)]
        ELSE [item |-> lastelt, heap |-> rest]

heappush(ns, h, item) == siftdown(ns, Append(h, item), 0, Len(h))

----------------------------------------------------------------------------
(* generate_codes *)

\* both children given the bit "0"
RECURSIVE generate_codes_same_bit(_, _, _, _)
generate_codes_same_bit(ns, node, code, cds) ==
    IF node = None THEN cds
    ELSE IF ns[node].char # NoneChar
         THEN dict_set(cds, ns[node].char, IF code = <<>> THEN <<0>> ELSE code)
         ELSE generate_codes_same_bit(ns, ns[node].right, code \o <<0>>,
                  generate_codes_same_bit(ns, ns[node].left, code \o <<0>>, cds))

\* the single-leaf case left out: a leaf root keeps the empty code
RECURSIVE generate_codes_no_guard(_, _, _, _)
generate_codes_no_guard(ns, node, code, cds) ==
    IF node = None THEN cds
    ELSE IF ns[node].char # NoneChar
         THEN dict_set(cds, ns[node].char, code)
         ELSE generate_codes_no_guard(ns, ns[node].right, code \o <<1>>,
                  generate_codes_no_guard(ns, ns[node].left, code \o <<0>>, cds))

\* HuffmanCoding.generate_codes of Final_CEP.py
RECURSIVE generate_codes(_, _, _, _)
generate_codes(ns, node, code, cds) ==
    IF node = None THEN cds
    ELSE IF ns[node].char # NoneChar
         THEN dict_set(cds, ns[node].char, IF code = <<>> THEN <<0>> ELSE code)
         ELSE generate_codes(ns, ns[node].right, code \o <<1>>,
                  generate_codes(ns, ns[node].left, code \o <<0>>, cds))

\* generate_codes of DSA_CEP.py: a leaf keeps the accumulated code as it is,
\* and the walk goes on into its (None) children
RECURSIVE DSA_generate_codes(_, _, _, _)
DSA_generate_codes(ns, node, current_code, cds) ==
    IF node = None THEN cds
    ELSE LET c0 == IF ns[node].char # NoneChar
                   THEN dict_set(cds, ns[node].char, current_code)
                   ELSE cds
         IN  DSA_generate_codes(ns, ns[node].right, current_code \o <<1>>,
                 DSA_generate_codes(ns, ns[node].left, current_code \o <<0>>, c0))

----------------------------------------------------------------------------
(* encode_text: the concatenated codes, or a KeyError *)

missing_code(txt, cds) == \E i \in 1..Len(txt) : ~dict_has(cds, txt[i])

RECURSIVE encode_text_join(_, _, _)
encode_text_join(txt, cds, i) ==
    IF i > Len(txt) THEN <<>>
    ELSE dict_get(cds, txt[i]) \o encode_text_join(txt, cds, i + 1)

encode_text(txt, cds) == encode_text_join(txt, cds, 1)

----------------------------------------------------------------------------
(* Binary formatting and parsing *)

\* the digits of format(n, "b")
RECURSIVE bin_digits(_)
bin_digits(n) == IF n < 2 THEN <<n>> ELSE bin_digits(n \div 2) \o <<n % 2>>

Zeros(n) == [i \in 1..n |-> 0]

\* f"{n:08b}": at least 8 digits, zero-filled on the left
format_08b(n) ==
    LET d == bin_digits(n)
    IN  Zeros(Max(HeaderBits - Len(d), 0)) \o d

\* int(s, 2) of a non-empty string of binary digits
RECURSIVE int_base2_loop(_, _, _)
int_base2_loop(s, i, acc) ==
    IF i > Len(s) THEN acc ELSE int_base2_loop(s, i + 1, 2 * acc + s[i])

int_base2(s) == int_base2_loop(s, 1, 0)

----------------------------------------------------------------------------
(* Padding *)

\* the outer `% 8` left out: a whole byte of padding on an aligned string
pad_encoded_no_mod(encoded) ==
    LET extra       == HeaderBits - (Len(encoded) % HeaderBits)
        padded_info == format_08b(extra)
    IN  [padded |-> padded_info \o (encoded \o Zeros(extra)), extra |-> extra]

\* HuffmanCoding.pad_encoded of Final_CEP.py: [padded, extra]
pad_encoded(encoded) ==
    LET extra       == (HeaderBits - (Len(encoded) % HeaderBits)) % HeaderBits
        padded_info == format_08b(extra)
    IN  [padded |-> padded_info \o (encoded \o Zeros(extra)), extra |-> extra]

\* pad_encoded_data of DSA_CEP.py
pad_encoded_data(encoded) ==
    LET extra_padding == (HeaderBits - (Len(encoded) % HeaderBits)) % HeaderBits
        padded_info   == format_08b(extra_padding)
    IN  padded_info \o (encoded \o Zeros(extra_padding))

\* the padding left in place: only the header is stripped
remove_padding_keep(data) == Drop(data, HeaderBits)

\* remove_padding (Final_CEP.py) and the first lines of huffman_decoding
\* (DSA_CEP.py); int() raises ValueError on the empty header
remove_padding_raises(data) == Take(data, HeaderBits) = <<>>

remove_padding(data) ==
    LET padded_info   == Take(data, HeaderBits)
        extra_padding == int_base2(padded_info)
        rest          == Drop(data, HeaderBits)
    IN  IF extra_padding > 0 THEN DropLast(rest, extra_padding) ELSE rest

----------------------------------------------------------------------------
(* FileManager.write_binary_file / read_binary_as_bits *)

RECURSIVE write_binary_file_loop(_, _)
write_binary_file_loop(encoded_str, i) ==
    IF i > Len(encoded_str) THEN <<>>
    ELSE <<int_base2(SubSeq(encoded_str, i, Min(i + HeaderBits - 1, Len(encoded_str))))>>
         \o write_binary_file_loop(encoded_str, i + HeaderBits)

write_binary_file(encoded_str) == write_binary_file_loop(encoded_str, 1)

RECURSIVE read_binary_as_bits_join(_, _)
read_binary_as_bits_join(byte_data, i) ==
    IF i > Len(byte_data) THEN <<>>
    ELSE format_08b(byte_data[i]) \o read_binary_as_bits_join(byte_data, i + 1)

read_binary_as_bits(byte_data) == read_binary_as_bits_join(byte_data, 1)

----------------------------------------------------------------------------
(* The decoder's inverse map {v: k for k, v in codes.items()}: the last    *)
(* symbol bound to a code wins                                             *)

build_reverse_codes(cds) ==
    [c \in {cds[i].v : i \in 1..Len(cds)} |->
        cds[CHOOSE i \in 1..Len(cds) :
                /\ cds[i].v = c
                /\ \A j \in (i + 1)..Len(cds) : cds[j].v # c].k]

----------------------------------------------------------------------------
(* The flows. FinalTab: the Streamlit tabs of Final_CEP.py; FinalFile:     *)
(* HuffmanCoding.compress_file / decompress_file; DSATab: the Streamlit    *)
(* tabs of DSA_CEP.py.                                                     *)

Flows == {"FinalTab", "FinalFile", "DSATab"}
TabFlows == {"FinalTab", "DSATab"}

StartWith(f, t, at, enc) ==
    /\ flow = f
    /\ pc = at
    /\ text = t
    /\ freq_table = <<>>
    /\ nodes = <<>>
    /\ heap = <<>>
    /\ root = None
    /\ codes = <<>>
    /\ encoded_data = enc
    /\ padded = <<>>
    /\ file_bytes = <<>>
    /\ compressed_data = <<>>
    /\ unpadded = <<>>
    /\ reverse_codes = <<>>
    /\ current = <<>>
    /\ decoded = <<>>
    /\ pos = 0
    /\ raised = "none"
    /\ messages = <<>>

Start(f, t, at) == StartWith(f, t, at, Unbound)

\* An exception leaves the flow: the tabs catch it and show st.error, the
\* command-line flow has no handler.
Raise(ex) ==
    /\ raised' = ex
    /\ pc' = "done"
    /\ messages' = IF flow \in TabFlows THEN Append(messages, "error") ELSE messages

\* compress_file returns on an empty text; otherwise the table is counted
Analyze ==
    /\ pc = "analyze"
    /\ IF flow = "FinalFile" /\ text = <<>>
       THEN /\ pc' = "done"
            /\ messages' = Append(messages, "File empty.")
            /\ UNCHANGED freq_table
       ELSE /\ freq_table' = build_frequency_table(text)
            /\ pc' = "build"
            /\ UNCHANGED messages
    /\ UNCHANGED <<flow, text, nodes, heap, root, codes, encoded_data, padded,
                   file_bytes, compressed_data, unpadded, reverse_codes,
                   current, decoded, pos, raised>>

\* build_huffman_tree up to the loop: the leaves, heapified
BuildStart ==
    /\ pc = "build"
    /\ IF flow # "DSATab" /\ freq_table = <<>>
       THEN /\ root' = None
            /\ pc' = "generate"
            /\ UNCHANGED <<nodes, heap>>
       ELSE LET ns == [i \in 1..Len(freq_table) |->
                          Node(freq_table[i].k, freq_table[i].v)]
            IN  /\ nodes' = ns
                /\ heap' = heapify(ns, [i \in 1..Len(ns) |-> i])
                /\ pc' = "merge"
                /\ UNCHANGED root
    /\ UNCHANGED <<flow, text, freq_table, codes, encoded_data, padded,
                   file_bytes, compressed_data, unpadded, reverse_codes,
                   current, decoded, pos, raised, messages>>

\* one iteration of `while len(heap) > 1`
MergeStep ==
    /\ pc = "merge"
    /\ Len(heap) > 1
    /\ LET p1     == heappop(nodes, heap)
           p2     == heappop(nodes, p1.heap)
           left   == p1.item
           right  == p2.item
           merged == [Node(NoneChar, nodes[left].freq + nodes[right].freq)
                         EXCEPT !.left = left, !.right = right]
           ns     == Append(nodes, merged)
       IN  /\ nodes' = ns
           /\ heap' = heappush(ns, p2.heap, Len(ns))
    /\ UNCHANGED <<flow, pc, text, freq_table, root, codes, encoded_data,
                   padded, file_bytes, compressed_data, unpadded,
                   reverse_codes, current, decoded, pos, raised, messages>>

\* the loop's exit and the return
BuildReturn ==
    /\ pc = "merge"
    /\ Len(heap) <= 1
    /\ root' = IF heap # <<>> THEN heap[1] ELSE None
    /\ pc' = "generate"
    /\ UNCHANGED <<flow, text, freq_table, nodes, heap, codes, encoded_data,
                   padded, file_bytes, compressed_data, unpadded,
                   reverse_codes, current, decoded, pos, raised, messages>>

\* the code map: generate_codes(root) in Final_CEP.py; in DSA_CEP.py the
\* three-way branch on the root and on the number of symbols
GenerateCodes ==
    /\ pc = "generate"
    /\ IF flow = "DSATab"
       THEN IF root = None
            THEN /\ messages' = Append(messages, "warning")
                 /\ pc' = "pad"
                 /\ UNCHANGED codes
            ELSE /\ codes' = IF Len(freq_table) = 1
                             THEN <<[k |-> freq_table[1].k, v |-> <<0>>]>>
                             ELSE DSA_generate_codes(nodes, root, <<>>, <<>>)
                 /\ pc' = "encode"
                 /\ UNCHANGED messages
       ELSE /\ codes' = generate_codes(nodes, root, <<>>, <<>>)
            /\ pc' = "encode"
            /\ UNCHANGED messages
    /\ UNCHANGED <<flow, text, freq_table, nodes, heap, root, encoded_data,
                   padded, file_bytes, compressed_data, unpadded,
                   reverse_codes, current, decoded, pos, raised>>

EncodeText ==
    /\ pc = "encode"
    /\ IF missing_code(text, codes)
       THEN /\ Raise("KeyError")
            /\ UNCHANGED encoded_data
       ELSE /\ encoded_data' = encode_text(text, codes)
            /\ pc' = "pad"
            /\ UNCHANGED <<raised, messages>>
    /\ UNCHANGED <<flow, text, freq_table, nodes, heap, root, codes, padded,
                   file_bytes, compressed_data, unpadded, reverse_codes,
                   current, decoded, pos>>

\* the padding; in DSA_CEP.py the name encoded_data is unbound when the
\* root was None
PadEncoded ==
    /\ pc = "pad"
    /\ IF encoded_data = Unbound
       THEN /\ Raise("NameError")
            /\ UNCHANGED padded
       ELSE /\ padded' = IF flow = "DSATab"
                         THEN pad_encoded_data(encoded_data)
                         ELSE pad_encoded(encoded_data).padded
            /\ pc' = IF flow = "FinalFile" THEN "write" ELSE "stats"
            /\ UNCHANGED <<raised, messages>>
    /\ UNCHANGED <<flow, text, freq_table, nodes, heap, root, codes,
                   encoded_data, file_bytes, compressed_data, unpadded,
                   reverse_codes, current, decoded, pos>>

\* the size statistics of the tabs, then the archive and st.success
Stats ==
    /\ pc = "stats"
    /\ LET original_bits == Len(text) * HeaderBits
       IN  IF original_bits = 0
           THEN Raise("ZeroDivisionError")
           ELSE /\ pc' = "compressed"
                /\ messages' = Append(messages, "success")
                /\ UNCHANGED raised
    /\ UNCHANGED <<flow, text, freq_table, nodes, heap, root, codes,
                   encoded_data, padded, file_bytes, compressed_data, unpadded,
                   reverse_codes, current, decoded, pos>>

\* compress_file: the packed bytes and the code table are written
WriteFile ==
    /\ pc = "write"
    /\ file_bytes' = write_binary_file(padded)
    /\ messages' = Append(messages, "Done.")
    /\ pc' = "compressed"
    /\ UNCHANGED <<flow, text, freq_table, nodes, heap, root, codes,
                   encoded_data, padded, compressed_data, unpadded,
                   reverse_codes, current, decoded, pos, raised>>

----------------------------------------------------------------------------
(* Decompression *)

\* The decoder reads back what the compressor stored: the archive's
\* compressed.bin (the tabs) or the bits of the .bin file (decompress_file),
\* with the code table that was saved beside it.
ReadCompressed ==
    /\ pc = "compressed"
    /\ compressed_data' = IF flow = "FinalFile"
                          THEN read_binary_as_bits(file_bytes)
                          ELSE padded
    /\ pc' = "remove"
    /\ UNCHANGED <<flow, text, freq_table, nodes, heap, root, codes,
                   encoded_data, padded, file_bytes, unpadded, reverse_codes,
                   current, decoded, pos, raised, messages>>

BitStrings(n) == SeqsUpTo(Bit, n)

\* code tables an uploaded archive may hold: every table on "a" and "b"
\* with codes of one or two bits
UploadCodes == BitStrings(2) \ {<<>>}
UploadCodeMaps ==
    {<<[k |-> "a", v |-> ca], [k |-> "b", v |-> cb]>> : ca \in UploadCodes, cb \in UploadCodes}

\* payloads an uploaded archive may hold: every string shorter than a
\* header, and every header up to MaxHeader followed by up to MaxBody bits
UploadPayloads ==
    BitStrings(HeaderBits - 1)
        \cup {format_08b(h) \o body : h \in 0..MaxHeader, body \in BitStrings(MaxBody)}

\* An archive from anywhere is uploaded to the decompress tab
Upload ==
    /\ pc = "upload"
    /\ \E payload \in UploadPayloads, cm \in UploadCodeMaps :
          /\ compressed_data' = payload
          /\ codes' = cm
    /\ pc' = "remove"
    /\ UNCHANGED <<flow, text, freq_table, nodes, heap, root, encoded_data,
                   padded, file_bytes, unpadded, reverse_codes, current,
                   decoded, pos, raised, messages>>

\* remove_padding, or lines 117-122 of huffman_decoding
RemovePadding ==
    /\ pc = "remove"
    /\ IF remove_padding_raises(compressed_data)
       THEN /\ Raise("ValueError")
            /\ UNCHANGED unpadded
       ELSE /\ unpadded' = remove_padding(compressed_data)
            /\ pc' = "invert"
            /\ UNCHANGED <<raised, messages>>
    /\ UNCHANGED <<flow, text, freq_table, nodes, heap, root, codes,
                   encoded_data, padded, file_bytes, compressed_data,
                   reverse_codes, current, decoded, pos>>

\* the inverse map and the loop's initial state
BuildReverse ==
    /\ pc = "invert"
    /\ reverse_codes' = build_reverse_codes(codes)
    /\ current' = <<>>
    /\ decoded' = <<>>
    /\ pos' = 0
    /\ pc' = "walk"
    /\ UNCHANGED <<flow, text, freq_table, nodes, heap, root, codes,
                   encoded_data, padded, file_bytes, compressed_data, unpadded,
                   raised, messages>>

\* one iteration of `for bit in encoded_data`
DecodeBit ==
    /\ pc = "walk"
    /\ pos < Len(unpadded)
    /\ LET cur == Append(current, unpadded[pos + 1])
       IN  IF cur \in DOMAIN reverse_codes
           THEN /\ decoded' = Append(decoded, reverse_codes[cur])
                /\ current' = <<>>
           ELSE /\ current' = cur
                /\ UNCHANGED decoded
    /\ pos' = pos + 1
    /\ UNCHANGED <<flow, pc, text, freq_table, nodes, heap, root, codes,
                   encoded_data, padded, file_bytes, compressed_data, unpadded,
                   reverse_codes, raised, messages>>

\* the loop is over: the decoded text is returned and shown or written
DecodeReturn ==
    /\ pc = "walk"
    /\ pos = Len(unpadded)
    /\ pc' = "done"
    /\ messages' = Append(messages, IF flow = "FinalFile" THEN "Done." ELSE "success")
    /\ UNCHANGED <<flow, text, freq_table, nodes, heap, root, codes,
                   encoded_data, padded, file_bytes, compressed_data, unpadded,
                   reverse_codes, current, decoded, pos, raised>>

----------------------------------------------------------------------------
(* Spec: a text is compressed and the result decompressed, in each flow *)

Texts == SeqsUpTo(Symbols, MaxLen)

Init == \E f \in Flows, t \in Texts : Start(f, t, "analyze")

Compress ==
    \/ Analyze
    \/ BuildStart
    \/ MergeStep
    \/ BuildReturn
    \/ GenerateCodes
    \/ EncodeText
    \/ PadEncoded
    \/ Stats
    \/ WriteFile

Decompress ==
    \/ RemovePadding
    \/ BuildReverse
    \/ DecodeBit
    \/ DecodeReturn

Next == Compress \/ ReadCompressed \/ Decompress

Spec == Init /\ [][Next]_vars

(* SpecTable: the tree and the code map of every frequency table with     *)
(* counts up to MaxFreq, the symbols in every insertion order. The text    *)
(* is the table written out: each symbol as often as it counts.            *)

RECURSIVE Repeat(_, _)
Repeat(x, n) == IF n = 0 THEN <<>> ELSE <<x>> \o Repeat(x, n - 1)

RECURSIVE Expand(_, _)
Expand(order, count) ==
    IF order = <<>> THEN <<>>
    ELSE Repeat(order[1], count[order[1]]) \o Expand(Tail(order), count)

Orders == {o \in SeqsUpTo(Symbols, Cardinality(Symbols)) :
              o # <<>> /\ \A i, j \in 1..Len(o) : i # j => o[i] # o[j]}

TableTexts == {Expand(o, c) : o \in Orders, c \in [Symbols -> 1..MaxFreq]}

InitTable == \E f \in TabFlows, t \in TableTexts : Start(f, t, "analyze")

NextTable ==
    \/ Analyze
    \/ BuildStart
    \/ MergeStep
    \/ BuildReturn
    \/ GenerateCodes

SpecTable == InitTable /\ [][NextTable]_vars

(* SpecPad: the padding of every bit string up to MaxBits bits *)

InitPad == \E f \in Flows, b \in BitStrings(MaxBits) : StartWith(f, <<>>, "pad", b)

NextPad == PadEncoded

SpecPad == InitPad /\ [][NextPad]_vars

(* SpecDecode: an uploaded archive is decompressed *)

InitDecode == \E f \in TabFlows : Start(f, <<>>, "upload")

NextDecode == Upload \/ Decompress

SpecDecode == InitDecode /\ [][NextDecode]_vars

----------------------------------------------------------------------------
(* Properties *)

IsPrefix(a, b) == Len(a) <= Len(b) /\ SubSeq(b, 1, Len(a)) = a

\* no code of the dict is a proper prefix of, or equal to, another one's
PrefixFree(cds) ==
    \A i, j \in 1..Len(cds) : i # j => ~IsPrefix(cds[i].v, cds[j].v)

\* C1: a non-empty text that went through build_frequency_table,
\* build_huffman_tree, generate_codes, encode_text and the padding, and then
\* through remove_padding and the decode loop with the same code map, comes
\* back unchanged and without an exception, in every flow.
C1_RoundTrip ==
    (pc = "done" /\ text # <<>>) => (raised = "none" /\ decoded = text)

C1_Witness ==
    /\ pc = "done"
    /\ decoded = text
    /\ Len(freq_table) >= 3
    /\ Len(text) > Len(freq_table)
    /\ Len(padded) > HeaderBits

\* C2: the code map of every non-empty frequency table is prefix-free and
\* gives distinct symbols distinct codes: no code is a prefix of (or equal
\* to) another symbol's code, and the map binds exactly the table's symbols.
\* This holds of the code map the flow builds and of either generate_codes
\* applied to the tree that build_huffman_tree returned.
C2_PrefixFreedom ==
    /\ (pc = "encode") =>
          /\ PrefixFree(codes)
          /\ dict_keys(codes) = dict_keys(freq_table)
          /\ Len(codes) = Len(freq_table)
    /\ (pc \in {"generate", "encode"} /\ root # None) =>
          /\ PrefixFree(generate_codes(nodes, root, <<>>, <<>>))
          /\ PrefixFree(DSA_generate_codes(nodes, root, <<>>, <<>>))

C2_Witness ==
    /\ pc = "encode"
    /\ Len(codes) = 4
    /\ \E i, j \in 1..Len(codes) : Len(codes[i].v) = 1 /\ Len(codes[j].v) = 3

\* the first HeaderBits bits of p read as a big-endian unsigned integer
RECURSIVE Pow2(_)
Pow2(n) == IF n = 0 THEN 1 ELSE 2 * Pow2(n - 1)

RECURSIVE HeaderSum(_, _)
HeaderSum(p, i) ==
    IF i > HeaderBits THEN 0 ELSE p[i] * Pow2(HeaderBits - i) + HeaderSum(p, i + 1)

HeaderValue(p) == HeaderSum(p, 1)

\* C3: for every bit string B, the empty one included, the padded string
\* has a length that is a multiple of 8 and at least 8; its first 8 bits
\* are the big-endian value extra = (8 - len(B) mod 8) mod 8, in 0..7; then
\* comes B, then exactly extra zero bits.
C3_PaddingCorrect ==
    (pc \in {"stats", "write"}) =>
        LET B     == encoded_data
            extra == (8 - (Len(B) % 8)) % 8
        IN  /\ Len(padded) % 8 = 0
            /\ Len(padded) >= 8
            /\ extra \in 0..7
            /\ Len(padded) = 8 + Len(B) + extra
            /\ HeaderValue(padded) = extra
            /\ SubSeq(padded, 9, 8 + Len(B)) = B
            /\ \A i \in (8 + Len(B) + 1)..Len(padded) : padded[i] = 0

C3_Witness ==
    /\ pc \in {"stats", "write"}
    /\ encoded_data = <<1, 0, 1, 1, 0>>
    /\ padded = <<0, 0, 0, 0, 0, 0, 1, 1, 1, 0, 1, 1, 0, 0, 0, 0>>

RECURSIVE EncodedLength(_, _, _)
EncodedLength(freq, cds, i) ==
    IF i > Len(freq) THEN 0
    ELSE freq[i].v * Len(dict_get(cds, freq[i].k)) + EncodedLength(freq, cds, i + 1)

\* The competitors: every way to give n symbols codes of 1 to MaxCodeLen
\* bits such that no code is a prefix of another.
\* The encoded length only depends on the lengths of the codes, so the
\* competitors are kept as their tuples of lengths.
Competitors(n) ==
    LET Codes == BitStrings(MaxCodeLen) \ {<<>>}
    IN  {[i \in 1..n |-> Len(m[i])] :
            m \in {t \in [1..n -> Codes] :
                      \A i, j \in 1..n : i # j => ~IsPrefix(t[i], t[j])}}
CompetitorLengths == [n \in 2..Cardinality(Symbols) |-> Competitors(n)]

RECURSIVE ProfileLength(_, _, _)
ProfileLength(freq, lens, i) ==
    IF i > Len(freq) THEN 0
    ELSE freq[i].v * lens[i] + ProfileLength(freq, lens, i + 1)

\* C5: for a frequency table of two or more symbols, no prefix-free code
\* map on the same symbols encodes the text in fewer bits than the code map
\* of build_huffman_tree and generate_codes.
C5_MinimalRedundancy ==
    (pc = "encode" /\ Len(freq_table) >= 2) =>
        \A lens \in CompetitorLengths[Len(freq_table)] :
            EncodedLength(freq_table, codes, 1) <= ProfileLength(freq_table, lens, 1)

\* a table where the two tree shapes on four symbols differ in cost
C5_Witness ==
    /\ pc = "encode"
    /\ Len(freq_table) = 4
    /\ \E i \in 1..4 : freq_table[i].v = 3
    /\ \E i \in 1..4 : Len(codes[i].v) = 1
    /\ EncodedLength(freq_table, codes, 1) = 11

HeapSet(h) == {h[i] : i \in 1..Len(h)}

\* the symbols at the leaves below a node, left to right
RECURSIVE Leaves(_, _)
Leaves(ns, id) ==
    IF ns[id].left = None /\ ns[id].right = None THEN <<ns[id].char>>
    ELSE (IF ns[id].left = None THEN <<>> ELSE Leaves(ns, ns[id].left))
         \o (IF ns[id].right = None THEN <<>> ELSE Leaves(ns, ns[id].right))

\* every node below id is a leaf holding a symbol, or an internal node
\* holding none, with two children and their frequencies' sum
RECURSIVE StrictBinary(_, _)
StrictBinary(ns, id) ==
    IF ns[id].char # NoneChar
    THEN ns[id].left = None /\ ns[id].right = None
    ELSE /\ ns[id].left # None
         /\ ns[id].right # None
         /\ ns[id].freq = ns[ns[id].left].freq + ns[ns[id].right].freq
         /\ StrictBinary(ns, ns[id].left)
         /\ StrictBinary(ns, ns[id].right)

RECURSIVE SumCounts(_, _)
SumCounts(freq, i) == IF i > Len(freq) THEN 0 ELSE freq[i].v + SumCounts(freq, i + 1)

\* the number of merge steps taken: one internal node is made per step
Merges == Len(nodes) - Len(freq_table)

TreeBuildState ==
    LET n == Len(freq_table)
    IN  /\ (pc = "merge") => Len(heap) = n - Merges
        /\ (pc \in {"generate", "encode"} /\ n >= 1) =>
              /\ Merges = n - 1
              /\ root # None
              /\ StrictBinary(nodes, root)
              /\ Len(Leaves(nodes, root)) = n
              /\ {Leaves(nodes, root)[i] : i \in 1..n} = dict_keys(freq_table)
              /\ \A i \in 1..n : nodes[i] = Node(freq_table[i].k, freq_table[i].v)
              /\ nodes[root].freq = SumCounts(freq_table, 1)

TreeBuildStep ==
    (pc = "merge" /\ nodes' # nodes) =>
        LET id     == Len(nodes')
            merged == nodes'[id]
            left   == merged.left
            right  == merged.right
        IN  /\ id = Len(nodes) + 1
            /\ SubSeq(nodes', 1, Len(nodes)) = nodes
            /\ left \in HeapSet(heap)
            /\ right \in HeapSet(heap) \ {left}
            /\ \A x \in HeapSet(heap) : nodes[left].freq <= nodes[x].freq
            /\ \A x \in HeapSet(heap) \ {left} : nodes[right].freq <= nodes[x].freq
            /\ merged.char = NoneChar
            /\ merged.freq = nodes[left].freq + nodes[right].freq
            /\ HeapSet(heap') = (HeapSet(heap) \ {left, right}) \cup {id}
            /\ Len(heap') = Len(heap) - 1

\* C10: on a table of n >= 1 symbols build_huffman_tree makes exactly n - 1
\* merge steps; each takes the two nodes of least frequency off the heap
\* and puts back one internal node with their sum, the first taken as its
\* left child and the second as its right; the root returned is a strict
\* binary tree whose leaves are the n symbols, each once, and whose
\* frequency is the sum of the table's counts.
C10_TreeBuild == []TreeBuildState /\ [][TreeBuildStep]_vars

C10_Witness ==
    /\ pc = "generate"
    /\ Len(freq_table) = 4
    /\ Merges = 3
    /\ nodes[root].freq = 7
    /\ nodes[nodes[root].left].char # NoneChar
    /\ nodes[nodes[root].right].char = NoneChar

\* C6: an archive whose payload is shorter than 8 bits, or whose header
\* declares more padding than there are bits after the header, makes the
\* decoder fail with an error.
MalformedPayload(data) ==
    \/ Len(data) < 8
    \/ HeaderValue(data) > Len(data) - 8

C6_MalformedPayloadDetected ==
    (pc = "done" /\ MalformedPayload(compressed_data)) =>
        raised # "none"

\* C7: the decoder returns a symbol sequence only when the walk ends with
\* an empty working prefix; a walk that ends inside a code fails.
C7_UndecodableDetected ==
    (pc = "done" /\ current # <<>>) => raised # "none"

\* C8: a code map that gives two symbols the same code makes the decoder
\* fail while it builds the inverse map: the walk never starts and no
\* symbol is emitted.
AmbiguousCodeMap(cds) ==
    \E i, j \in 1..Len(cds) : i # j /\ cds[i].v = cds[j].v

C8_AmbiguousCodeMapDetected ==
    (pc \in {"walk", "done"} /\ AmbiguousCodeMap(codes)) =>
        (raised # "none" /\ pos = 0 /\ decoded = <<>>)

\* C9: on the empty text the table is empty and there is no tree, and each
\* compress flow ends in an empty-input signal without raising an
\* exception.
EmptyInputSignals == {"File empty.", "warning"}

C9_EmptyInputNoException ==
    (text = <<>>) =>
        /\ freq_table = <<>>
        /\ root = None
        /\ (pc = "done") =>
              /\ raised = "none"
              /\ \E i \in 1..Len(messages) : messages[i] \in EmptyInputSignals

====
